---- MODULE Spec2Model ----
(***************************************************************************)
(* E-commerce analytics: the synthetic data generator                      *)
(* (src/src/generate_data.py) and the aggregation engine                   *)
(* (src/src/analysis.py).                                                  *)
(*                                                                         *)
(* Money is counted in cents (integers).  Dates are day numbers (days      *)
(* since 1970-01-01) inside datetime values and 8-digit sequences          *)
(* (YYYYMMDD, the '-' separators sit at fixed positions and are left out)  *)
(* once formatted by strftime('%Y-%m-%d').  Identifiers "TXN_%06d" and     *)
(* "CUST_%04d" are represented by their number.                            *)
(***************************************************************************)
EXTENDS Integers, Sequences, FiniteSets, TLC

VARIABLES today, rng_pos, tape, pc, n_transactions, i, start_date, data,
          df, customers_df, runs, err, call, result, seen

vars == <<today, rng_pos, tape, pc, n_transactions, i, start_date, data,
          df, customers_df, runs, err, call, result, seen>>

(***************************************************************************)
(* Bounds of the model                                                     *)
(***************************************************************************)
MaxN == 2          \* largest n_transactions, and draws of the seeded stream revealed
MaxNegative == 1   \* how far below 0 the n_transactions passed to the generator go
MaxRuns == 2       \* generator runs that are recorded
MaxTicks == 1      \* days the clock may advance
Today0 == 20763    \* the day the first process starts (2026-11-06)
MaxRows == 4       \* rows of a loaded transaction table
MaxTop == 2        \* largest n passed to top_products
MaxTimeRows == 2    \* rows of a loaded table of dated sales
MaxSegRows == 3    \* rows of a table of spending at the segment thresholds

(***************************************************************************)
(* Program constants                                                       *)
(***************************************************************************)
CATEGORIES == <<"Électronique", "Vêtements", "Maison & Jardin", "Sports & Loisirs", "Livres">>

PRODUCTS == [c \in {CATEGORIES[k] : k \in 1..5} |->
    CASE c = "Électronique" -> <<"Smartphone", "Laptop", "Tablette", "Écouteurs", "Montre connectée", "Enceinte Bluetooth">>
      [] c = "Vêtements" -> <<"T-shirt", "Jean", "Robe", "Veste", "Chaussures", "Sac à main">>
      [] c = "Maison & Jardin" -> <<"Aspirateur", "Cafetière", "Lampe", "Coussin", "Plante", "Bougie">>
      [] c = "Sports & Loisirs" -> <<"Ballon", "Tapis de yoga", "Vélo", "Raquette", "Sac de sport", "Gourde">>
      [] OTHER -> <<"Roman", "BD", "Guide pratique", "Biographie", "Science-fiction", "Cuisine">>]

REGIONS == <<"Île-de-France", "Auvergne-Rhône-Alpes", "Provence-Alpes-Côte d'Azur",
             "Nouvelle-Aquitaine", "Occitanie", "Hauts-de-France", "Bretagne", "Grand Est">>

PAYMENT_METHODS == <<"Carte bancaire", "PayPal", "Virement", "Apple Pay">>

STATUSES == <<"Complété", "Annulé", "Remboursé">>

QUANTITIES == <<1, 2, 3, 4, 5>>

HistoryDays == 730      \* timedelta(days=730) and the cap on days_offset
PremiumAbove == 200000  \* total_spent > 2000, in cents
RegularAbove == 50000   \* total_spent > 500, in cents

\* random.uniform(lo, hi) of the category, in thousandths of a currency unit
PriceRange(category) ==
    CASE category = "Électronique" -> [lo |-> 50000, hi |-> 1200000]
      [] category = "Vêtements" -> [lo |-> 15000, hi |-> 150000]
      [] category = "Maison & Jardin" -> [lo |-> 10000, hi |-> 300000]
      [] category = "Sports & Loisirs" -> [lo |-> 10000, hi |-> 500000]
      [] OTHER -> [lo |-> 5000, hi |-> 50000]

\* random.uniform(0.9, 1.1), in thousandths
JitterRange == [lo |-> 900, hi |-> 1100]

(***************************************************************************)
(* Helpers                                                                 *)
(***************************************************************************)
Range(s) == {s[k] : k \in 1..Len(s)}

\* round(x, 2) of the value num/den cents (den > 0): nearest cent, ties to even
Round2(num, den) ==
    LET q == num \div den
        r == num - q * den
    IN  IF 2 * r < den THEN q
        ELSE IF 2 * r > den THEN q + 1
        ELSE IF q % 2 = 0 THEN q ELSE q + 1

\* datetime arithmetic: the civil date <<y, m, d>> of a day number
CivilFromDays(z0) ==
    LET z == z0 + 719468
        era == z \div 146097
        doe == z - era * 146097
        yoe == (doe - doe \div 1460 + doe \div 36524 - doe \div 146096) \div 365
        doy == doe - (365 * yoe + yoe \div 4 - yoe \div 100)
        mp == (5 * doy + 2) \div 153
        d == doy - (153 * mp + 2) \div 5 + 1
        m == IF mp < 10 THEN mp + 3 ELSE mp - 9
        y == yoe + era * 400 + (IF m <= 2 THEN 1 ELSE 0)
    IN  <<y, m, d>>

\* the day number of a civil date
DaysFromCivil(y0, m, d) ==
    LET y == IF m <= 2 THEN y0 - 1 ELSE y0
        era == y \div 400
        yoe == y - era * 400
        doy == (153 * (IF m > 2 THEN m - 3 ELSE m + 9) + 2) \div 5 + d - 1
        doe == yoe * 365 + yoe \div 4 - yoe \div 100 + doy
    IN  era * 146097 + doe - 719468

\* transaction_date.strftime('%Y-%m-%d'): zero-padded digits, year first
Strftime(day) ==
    LET c == CivilFromDays(day)
    IN  <<c[1] \div 1000, (c[1] \div 100) % 10, (c[1] \div 10) % 10, c[1] % 10,
          c[2] \div 10, c[2] % 10, c[3] \div 10, c[3] % 10>>

\* pd.to_datetime / parse_dates on a 'YYYY-MM-DD' string: back to a day number
ToDatetime(s) ==
    DaysFromCivil(s[1] * 1000 + s[2] * 100 + s[3] * 10 + s[4],
                  s[5] * 10 + s[6], s[7] * 10 + s[8])

\* s < t for strings of equal length (character by character)
RECURSIVE StrLess(_, _)
StrLess(s, t) ==
    IF s = <<>> \/ t = <<>> THEN FALSE
    ELSE IF s[1] # t[1] THEN s[1] < t[1]
    ELSE StrLess(Tail(s), Tail(t))

DateLess(r1, r2) == StrLess(r1.date, r2.date)

\* stable insertion of row x into the date-sorted sequence s (after its equals)
RECURSIVE InsertByDate(_, _)
InsertByDate(x, s) ==
    IF s = <<>> THEN <<x>>
    ELSE IF DateLess(x, s[1]) THEN <<x>> \o s
    ELSE <<s[1]>> \o InsertByDate(x, Tail(s))

\* (mutant) the frame is returned in generation order
SortByDate_m(s) == s

\* df.sort_values('date') on a short frame: stable insertion sort on the strings
RECURSIVE SortByDate(_)
SortByDate(s) ==
    IF s = <<>> THEN <<>>
    ELSE InsertByDate(s[Len(s)], SortByDate(SubSeq(s, 1, Len(s) - 1)))

(***************************************************************************)
(* The seeded random stream (np.random.seed(42), random.seed(42)).         *)
(* The stream is a fixed function of the seed: `tape' holds the part of it *)
(* revealed so far, one entry per loop iteration, and rng_pos is the       *)
(* number of entries consumed since the process seeded its generators.     *)
(***************************************************************************)
ExpDraws == {200, 731}          \* int(np.random.exponential(200))
RandintDraws == {730}           \* random.randint(0, 730)
StatusDraws == Range(STATUSES)
PriceDraws ==
    { [category |-> "Livres", product |-> "Roman", base_price |-> 5000, jitter |-> 900, quantity |-> 1],
      [category |-> "Électronique", product |-> "Laptop", base_price |-> 1200000, jitter |-> 1100, quantity |-> 5] }
CustomerDraws == {1}
RegionDraws == {"Bretagne"}
PaymentDraws == {"PayPal"}

Draws ==
    { [exp |-> e, randint |-> r, price |-> p, customer |-> c, region |-> g,
       payment |-> m, status |-> s] :
        e \in ExpDraws, r \in RandintDraws, p \in PriceDraws, c \in CustomerDraws,
        g \in RegionDraws, m \in PaymentDraws, s \in StatusDraws }

\* price = round(base_price * random.uniform(0.9, 1.1), 2), in cents
UnitPrice(base_price, jitter) == Round2(base_price * jitter, 10000)

\* (mutant) the amount is kept whatever the status
TotalAmount_m(price, quantity, status) == Round2(price * quantity, 1)

\* total = round(price * quantity, 2), recorded only for a completed sale
TotalAmount(price, quantity, status) ==
    IF status = "Complété" THEN Round2(price * quantity, 1) ELSE 0

\* one iteration of the loop body: the row built from the draws
MakeRow(k, start, d) ==
    LET days_offset == IF d.exp > HistoryDays THEN d.randint ELSE d.exp
        transaction_date == start + days_offset
        price == UnitPrice(d.price.base_price, d.price.jitter)
    IN  [transaction_id |-> k + 1,
         date |-> Strftime(transaction_date),
         customer_id |-> d.customer,
         category |-> d.price.category,
         product |-> d.price.product,
         quantity |-> d.price.quantity,
         unit_price |-> price,
         total_amount |-> TotalAmount(price, d.price.quantity, d.status),
         region |-> d.region,
         payment_method |-> d.payment,
         status |-> d.status]

(***************************************************************************)
(* Data frames: the column names and the rows.  pd.DataFrame([]) has no    *)
(* columns at all; selecting or sorting by a missing column is a KeyError. *)
(***************************************************************************)
DataFrame(rows) ==
    [columns |-> IF rows = <<>> THEN {} ELSE DOMAIN rows[1], rows |-> rows]

NoFrame == [columns |-> {}, rows |-> <<>>]

RECURSIVE SumSeq(_)
SumSeq(s) == IF s = <<>> THEN 0 ELSE s[1] + SumSeq(Tail(s))

\* Series.unique(): the distinct values in order of first appearance
RECURSIVE Unique(_)
Unique(s) ==
    IF s = <<>> THEN <<>>
    ELSE LET u == Unique(SubSeq(s, 1, Len(s) - 1))
         IN  IF s[Len(s)] \in Range(u) THEN u ELSE Append(u, s[Len(s)])

Column(rows, name) == [k \in 1..Len(rows) |-> rows[k][name]]

\* Series.min() of date strings
RECURSIVE MinDate(_)
MinDate(s) ==
    IF Len(s) = 1 THEN s[1]
    ELSE LET m == MinDate(Tail(s)) IN IF StrLess(m, s[1]) THEN m ELSE s[1]

(***************************************************************************)
(* Float64 sums.  Series.sum() of amounts is their sum in cents plus the   *)
(* binary rounding residue left by the additions, counted in float steps   *)
(* (FloatGrain steps to the cent).  The residue is far below a cent and    *)
(* shows only where the decimal sum sits exactly on a threshold.  Among    *)
(* the amounts of the model the sums that leave one are, in any order of   *)
(* the rows:                                                               *)
(*    263.47 + 41.42 + 195.11   = 500.00000000000006                       *)
(*    299.28 + 169.64 + 31.08   = 499.99999999999994                       *)
(*    528.44 + 271.41 + 1200.15 = 2000.0000000000002                       *)
(***************************************************************************)
FloatGrain == 100

RoundsAbove == { {26347, 4142, 19511}, {52844, 27141, 120015} }

RoundsBelow == { {29928, 16964, 3108} }

SumResidue(amounts) ==
    IF Len(amounts) = 3 /\ Range(amounts) \in RoundsAbove THEN 1
    ELSE IF Len(amounts) = 3 /\ Range(amounts) \in RoundsBelow THEN -1
    ELSE 0

FloatSum(amounts) == SumSeq(amounts) * FloatGrain + SumResidue(amounts)

\* the segment of a customer from the (unrounded) float total
Segment(total_spent) ==
    IF total_spent > PremiumAbove * FloatGrain THEN "Premium"
    ELSE IF total_spent > RegularAbove * FloatGrain THEN "Régulier"
    ELSE "Occasionnel"

\* the row generate_customer_data builds for one customer
CustomerRow(rows, customer_id) ==
    LET mine == SelectSeq(rows, LAMBDA r : r.customer_id = customer_id)
        paid == SelectSeq(rows, LAMBDA r : r.customer_id = customer_id /\ r.status = "Complété")
        total_spent == FloatSum(Column(paid, "total_amount"))
    IN  [customer_id |-> customer_id,
         first_purchase_date |-> MinDate(Column(mine, "date")),
         total_purchases |-> Len(mine),
         total_spent |-> Round2(total_spent, FloatGrain),
         segment |-> Segment(total_spent)]

generate_customer_data(transactions_df) ==
    LET customers == Unique(Column(transactions_df.rows, "customer_id"))
    IN  DataFrame([k \in 1..Len(customers) |-> CustomerRow(transactions_df.rows, customers[k])])

\* what a call gave back: a value, or the exception it raised
Returned(v) == [raised |-> "none", value |-> v]
Raised(e) == [raised |-> e, value |-> <<>>]
NoCall == [fn |-> "none", n |-> 0]

\* what a caller holds on to: a call it made, the value it got back, the
\* frames it passed, and whether it has called anything else since
NoSeen ==
    [call |-> NoCall, result |-> Returned(<<>>), df |-> NoFrame,
     customers_df |-> NoFrame, other |-> FALSE]

(***************************************************************************)
(* The generator process                                                   *)
(***************************************************************************)
InitCommon ==
    /\ today = Today0
    /\ rng_pos = 0
    /\ tape = <<>>
    /\ n_transactions = 0
    /\ i = 0
    /\ start_date = 0
    /\ data = <<>>
    /\ customers_df = NoFrame
    /\ runs = <<>>
    /\ err = "none"
    /\ call = NoCall
    /\ result = Returned(<<>>)
    /\ seen = NoSeen

Init ==
    /\ InitCommon
    /\ pc = "idle"
    /\ df = NoFrame

\* a new process imports the module: np.random.seed(42); random.seed(42)
Import ==
    /\ pc \in {"idle", "raised"}
    /\ Len(runs) < MaxRuns
    /\ rng_pos > 0 \/ pc = "raised"
    /\ rng_pos' = 0
    /\ pc' = "idle"
    /\ err' = "none"
    /\ n_transactions' = 0
    /\ i' = 0
    /\ start_date' = 0
    /\ data' = <<>>
    /\ df' = NoFrame
    /\ customers_df' = NoFrame
    /\ UNCHANGED <<today, tape, runs, call, result, seen>>

\* the calendar moves on between invocations
Tick ==
    /\ pc = "idle"
    /\ Len(runs) > 0
    /\ today < Today0 + MaxTicks
    /\ today' = today + 1
    /\ UNCHANGED <<rng_pos, tape, pc, n_transactions, i, start_date, data,
                   df, customers_df, runs, err, call, result, seen>>

\* generate_ecommerce_data(n): data = [], start_date = now - 730 days
Call(n) ==
    /\ pc = "idle"
    /\ Len(runs) < MaxRuns
    /\ n > 0 => rng_pos + n <= MaxN
    /\ pc' = "loop"
    /\ n_transactions' = n
    /\ i' = 0
    /\ data' = <<>>
    /\ start_date' = today - HistoryDays
    /\ UNCHANGED <<today, rng_pos, tape, df, customers_df, runs, err, call, result, seen>>

\* one iteration of `for i in range(n_transactions)'
LoopBody ==
    /\ pc = "loop"
    /\ i < n_transactions
    /\ \E d \in (IF rng_pos < Len(tape) THEN {tape[rng_pos + 1]} ELSE Draws) :
        /\ tape' = IF rng_pos < Len(tape) THEN tape ELSE Append(tape, d)
        /\ data' = Append(data, MakeRow(i, start_date, d))
    /\ rng_pos' = rng_pos + 1
    /\ i' = i + 1
    /\ UNCHANGED <<today, pc, n_transactions, start_date, df, customers_df,
                   runs, err, call, result, seen>>

\* df = pd.DataFrame(data); df.sort_values('date').reset_index(drop=True); return
Return ==
    /\ pc = "loop"
    /\ i >= n_transactions
    /\ LET frame == DataFrame(data)
       IN  IF "date" \in frame.columns
           THEN /\ df' = [frame EXCEPT !.rows = SortByDate(frame.rows)]
                /\ pc' = "returned"
                /\ err' = "none"
           ELSE /\ df' = NoFrame
                /\ pc' = "raised"
                /\ err' = "KeyError"
    /\ UNCHANGED <<today, rng_pos, tape, n_transactions, i, start_date, data,
                   customers_df, runs, call, result, seen>>

\* customers = generate_customer_data(transactions): on the table just
\* generated (both tables are written out and the run is complete) or on a
\* loaded table
Customers ==
    /\ pc \in {"returned", "loaded"}
    /\ IF pc = "returned"
       THEN /\ runs' = Append(runs, [n |-> n_transactions, transactions |-> df,
                                     customers |-> generate_customer_data(df)])
            /\ pc' = "idle"
            /\ n_transactions' = 0
            /\ i' = 0
            /\ start_date' = 0
            /\ data' = <<>>
            /\ df' = NoFrame
            /\ UNCHANGED customers_df
       ELSE /\ customers_df' = generate_customer_data(df)
            /\ pc' = "derived"
            /\ UNCHANGED <<runs, n_transactions, i, start_date, data, df>>
    /\ UNCHANGED <<today, rng_pos, tape, err, call, result, seen>>

(***************************************************************************)
(* The aggregation engine (analysis.py).  Results are the rows of the      *)
(* returned frame; ratios and means are exact fractions, NaN apart.        *)
(***************************************************************************)
RECURSIVE Gcd(_, _)
Gcd(a, b) == IF b = 0 THEN a ELSE Gcd(b, a % b)

NaN == [nan |-> TRUE, num |-> 0, den |-> 0]

\* a / b in floating point: NaN for 0.0 / 0, else the quotient
Frac(a, b) ==
    IF b = 0 THEN NaN
    ELSE [nan |-> FALSE, num |-> a \div Gcd(a, b), den |-> b \div Gcd(a, b)]

\* Series.mean(): NaN for an empty series
Mean(s) == Frac(SumSeq(s), Len(s))

\* every name of the program in code point order (the order of str <)
NameOrder ==
    <<"Apple Pay", "Aspirateur", "Auvergne-Rhône-Alpes", "BD", "Ballon", "Biographie",
      "Bougie", "Bretagne", "Cafetière", "Carte bancaire", "Chaussures", "Coussin",
      "Cuisine", "Enceinte Bluetooth", "Gourde", "Grand Est", "Guide pratique",
      "Hauts-de-France", "Jean", "Lampe", "Laptop", "Livres", "Maison & Jardin",
      "Montre connectée", "Nouvelle-Aquitaine", "Occasionnel", "Occitanie", "PayPal",
      "Plante", "Premium", "Provence-Alpes-Côte d'Azur", "Raquette", "Robe", "Roman",
      "Régulier", "Sac de sport", "Sac à main", "Science-fiction", "Smartphone",
      "Sports & Loisirs", "T-shirt", "Tablette", "Tapis de yoga", "Veste", "Virement",
      "Vélo", "Vêtements", "Écouteurs", "Électronique", "Île-de-France">>

NameRank(name) == CHOOSE k \in 1..Len(NameOrder) : NameOrder[k] = name

\* a < b for group keys (tuples of names), column by column
RECURSIVE KeyLess(_, _)
KeyLess(a, b) ==
    IF a = <<>> THEN FALSE
    ELSE IF a[1] # b[1] THEN NameRank(a[1]) < NameRank(b[1])
    ELSE KeyLess(Tail(a), Tail(b))

RECURSIVE SortKeys(_)
SortKeys(S) ==
    IF S = {} THEN <<>>
    ELSE LET m == CHOOSE x \in S : \A y \in S \ {x} : KeyLess(x, y)
         IN  <<m>> \o SortKeys(S \ {m})

KeyOf(r, by) == [k \in 1..Len(by) |-> r[by[k]]]

\* (mutant) rows with the same key are not merged into one group
GroupBy_m(rows, by) ==
    [g \in 1..Len(rows) |-> [key |-> KeyOf(rows[g], by), rows |-> <<rows[g]>>]]

\* rows.groupby(by): one group per distinct key, in ascending key order
GroupBy(rows, by) ==
    LET keys == SortKeys({KeyOf(rows[k], by) : k \in 1..Len(rows)})
    IN  [g \in 1..Len(keys) |->
            [key |-> keys[g],
             rows |-> SelectSeq(rows, LAMBDA r : KeyOf(r, by) = keys[g])]]

\* (mutant) the status filter is dropped
Completed_m(frame) == frame.rows

\* df[df['status'] == 'Complété']
Completed(frame) == SelectSeq(frame.rows, LAMBDA r : r.status = "Complété")

\* (mutant) ascending instead of descending
RECURSIVE InsertByRevenue_m(_, _)
InsertByRevenue_m(x, s) ==
    IF s = <<>> THEN <<x>>
    ELSE IF s[1].revenue > x.revenue THEN <<x>> \o s
    ELSE <<s[1]>> \o InsertByRevenue_m(x, Tail(s))

\* stable insertion of x into s sorted by falling revenue (x after its equals)
RECURSIVE InsertByRevenue(_, _)
InsertByRevenue(x, s) ==
    IF s = <<>> THEN <<x>>
    ELSE IF s[1].revenue < x.revenue THEN <<x>> \o s
    ELSE <<s[1]>> \o InsertByRevenue(x, Tail(s))

\* sort_values('revenue', ascending=False) on a short frame
RECURSIVE SortByRevenue(_)
SortByRevenue(s) ==
    IF s = <<>> THEN <<>>
    ELSE InsertByRevenue(s[Len(s)], SortByRevenue(SubSeq(s, 1, Len(s) - 1)))

\* DataFrame.head(n)
DfHead(s, n) ==
    IF n >= 0 THEN SubSeq(s, 1, IF n < Len(s) THEN n ELSE Len(s))
    ELSE SubSeq(s, 1, IF Len(s) + n > 0 THEN Len(s) + n ELSE 0)

calculate_kpis(frame) ==
    LET completed == Completed(frame)
    IN  IF Len(frame.rows) = 0 THEN Raised("ZeroDivisionError")
        ELSE Returned(
            [total_revenue |-> SumSeq(Column(completed, "total_amount")),
             total_transactions |-> Len(completed),
             avg_order_value |-> Mean(Column(completed, "total_amount")),
             total_customers |-> Cardinality(Range(Column(frame.rows, "customer_id"))),
             total_products_sold |-> SumSeq(Column(completed, "quantity")),
             conversion_rate |-> Frac(Len(completed) * 100, Len(frame.rows))])

sales_by_category(frame) ==
    LET groups == GroupBy(Completed(frame), <<"category">>)
    IN  Returned(SortByRevenue(
            [g \in 1..Len(groups) |->
                [category |-> groups[g].key[1],
                 revenue |-> SumSeq(Column(groups[g].rows, "total_amount")),
                 transactions |-> Len(groups[g].rows),
                 units_sold |-> SumSeq(Column(groups[g].rows, "quantity"))]]))

sales_by_region(frame) ==
    LET groups == GroupBy(Completed(frame), <<"region">>)
    IN  Returned(SortByRevenue(
            [g \in 1..Len(groups) |->
                [region |-> groups[g].key[1],
                 revenue |-> SumSeq(Column(groups[g].rows, "total_amount")),
                 transactions |-> Len(groups[g].rows)]]))

top_products(frame, n) ==
    LET groups == GroupBy(Completed(frame), <<"product", "category">>)
    IN  Returned(DfHead(SortByRevenue(
            [g \in 1..Len(groups) |->
                [product |-> groups[g].key[1],
                 category |-> groups[g].key[2],
                 revenue |-> SumSeq(Column(groups[g].rows, "total_amount")),
                 units_sold |-> SumSeq(Column(groups[g].rows, "quantity")),
                 orders |-> Len(groups[g].rows)]]), n))

customer_segments_analysis(customers) ==
    IF "segment" \notin customers.columns THEN Raised("KeyError")
    ELSE LET groups == GroupBy(customers.rows, <<"segment">>)
         IN  Returned(
                [g \in 1..Len(groups) |->
                    [segment |-> groups[g].key[1],
                     nb_customers |-> Len(groups[g].rows),
                     total_revenue |-> SumSeq(Column(groups[g].rows, "total_spent")),
                     avg_spent |-> Mean(Column(groups[g].rows, "total_spent")),
                     avg_purchases |-> Mean(Column(groups[g].rows, "total_purchases"))]])

payment_method_analysis(frame) ==
    LET groups == GroupBy(Completed(frame), <<"payment_method">>)
        stats == [g \in 1..Len(groups) |->
                    [payment_method |-> groups[g].key[1],
                     revenue |-> SumSeq(Column(groups[g].rows, "total_amount")),
                     transactions |-> Len(groups[g].rows)]]
        total == SumSeq(Column(stats, "transactions"))
    IN  Returned(SortByRevenue(
            [g \in 1..Len(stats) |->
                [payment_method |-> stats[g].payment_method,
                 revenue |-> stats[g].revenue,
                 transactions |-> stats[g].transactions,
                 percentage |-> Frac(stats[g].transactions * 100, total)]]))

(***************************************************************************)
(* Engine calls on a loaded table                                          *)
(***************************************************************************)
\* the granularities the dashboard passes: Jour, Semaine, Mois
Freqs == <<"D", "W", "M">>

\* Timestamp.weekday(): Monday = 0 .. Sunday = 6 (day 0, 1970-01-01, is a Thursday)
Weekday(day) == (day + 3) % 7

\* the last day of the month of a day
MonthEnd(day) ==
    LET c == CivilFromDays(day)
    IN  (IF c[2] = 12 THEN DaysFromCivil(c[1] + 1, 1, 1)
         ELSE DaysFromCivil(c[1], c[2] + 1, 1)) - 1

\* the edge that closes the bin of a day: the day itself for 'D', the Sunday
\* on or after it for 'W' (= W-SUN), the end of its month for 'M'
BinLabel(freq, day) ==
    CASE freq = "D" -> day
      [] freq = "W" -> day + (6 - Weekday(day))
      [] freq = "M" -> MonthEnd(day)

\* the edge before an edge, and the edge after it
PrevEdge(freq, edge) ==
    CASE freq = "D" -> edge - 1
      [] freq = "W" -> edge - 7
      [] freq = "M" -> LET c == CivilFromDays(edge) IN DaysFromCivil(c[1], c[2], 1) - 1

NextEdge(freq, edge) ==
    CASE freq = "D" -> edge + 1
      [] freq = "W" -> edge + 7
      [] freq = "M" -> MonthEnd(edge + 1)

SeriesMin(s) == CHOOSE x \in Range(s) : \A y \in Range(s) : x <= y

SeriesMax(s) == CHOOSE x \in Range(s) : \A y \in Range(s) : x >= y

\* date_range(first, last, freq): every edge from the bin of the earliest
\* date to the bin of the latest
RECURSIVE BinEdges(_, _, _)
BinEdges(freq, edge, last) ==
    IF edge > last THEN <<>>
    ELSE <<edge>> \o BinEdges(freq, NextEdge(freq, edge), last)

\* completed.groupby(pd.Grouper(key='date', freq=freq)).agg(sum, count):
\* one row per bin, empty bins included, labelled with the bin's edge; a
\* bin holds the dates after the previous edge up to its own
TimeSeries(frame, freq) ==
    LET kept == Completed(frame)
        completed == [k \in 1..Len(kept) |-> [kept[k] EXCEPT !.date = ToDatetime(@)]]
        dates == Column(completed, "date")
        edges == IF completed = <<>> THEN <<>>
                 ELSE BinEdges(freq, BinLabel(freq, SeriesMin(dates)),
                               BinLabel(freq, SeriesMax(dates)))
    IN  [b \in 1..Len(edges) |->
            LET rows == SelectSeq(completed,
                            LAMBDA r : PrevEdge(freq, edges[b]) < r.date /\ r.date <= edges[b])
            IN  [date |-> edges[b],
                 revenue |-> SumSeq(Column(rows, "total_amount")),
                 transactions |-> Len(rows)]]

\* (mutant) the other rows are dropped from the caller's frame itself
sales_over_time_m(frame, freq) ==
    [input |-> [frame EXCEPT !.rows = Completed(frame)],
     value |-> Returned(TimeSeries(frame, freq))]

\* sales_over_time(df, freq): the date conversion is written into a copy of
\* the completed rows, so the caller's frame comes back as it went in
sales_over_time(frame, freq) ==
    [input |-> frame, value |-> Returned(TimeSeries(frame, freq))]

\* the caller's record after one more call
Since(kept, c) ==
    IF kept = NoSeen THEN kept ELSE [kept EXCEPT !.other = @ \/ c # kept.call]

EngineCall(fn, n, res) ==
    /\ pc \in {"loaded", "derived"}
    /\ call' = [fn |-> fn, n |-> n]
    /\ result' = res
    /\ seen' = Since(seen, [fn |-> fn, n |-> n])
    /\ UNCHANGED <<today, rng_pos, tape, pc, n_transactions, i, start_date, data,
                   df, customers_df, runs, err>>

CalculateKpis == EngineCall("calculate_kpis", 0, calculate_kpis(df))

SalesByCategory == EngineCall("sales_by_category", 0, sales_by_category(df))

SalesByRegion == EngineCall("sales_by_region", 0, sales_by_region(df))

TopProducts(n) == EngineCall("top_products", n, top_products(df, n))

PaymentMethodAnalysis == EngineCall("payment_method_analysis", 0, payment_method_analysis(df))

CustomerSegmentsAnalysis ==
    /\ pc = "derived"
    /\ EngineCall("customer_segments_analysis", 0, customer_segments_analysis(customers_df))

\* sales_over_time(filtered_df, freq=freq_map[time_freq])
SalesOverTime(k) ==
    /\ pc \in {"loaded", "derived"}
    /\ LET r == sales_over_time(df, Freqs[k])
       IN  /\ df' = r.input
           /\ result' = r.value
    /\ call' = [fn |-> "sales_over_time", n |-> k]
    /\ seen' = Since(seen, [fn |-> "sales_over_time", n |-> k])
    /\ UNCHANGED <<today, rng_pos, tape, pc, n_transactions, i, start_date, data,
                   customers_df, runs, err>>

\* the caller binds what a call returned to a name and goes on calling
\* (kpis = calculate_kpis(filtered_df), ...)
KeepResult ==
    /\ pc \in {"loaded", "derived"}
    /\ call # NoCall
    /\ seen = NoSeen
    /\ seen' = [call |-> call, result |-> result, df |-> df,
                customers_df |-> customers_df, other |-> FALSE]
    /\ UNCHANGED <<today, rng_pos, tape, pc, n_transactions, i, start_date, data,
                   df, customers_df, runs, err, call, result>>

(***************************************************************************)
(* Loaded tables: the rows come from a small catalogue of sales, the       *)
(* transaction ids number the rows.  Every row obeys the data model        *)
(* (total_amount is 0 unless the sale is completed).                       *)
(***************************************************************************)
Sale(customer, product, category, quantity, unit_price, payment, status, day) ==
    [transaction_id |-> 0,
     date |-> Strftime(day),
     customer_id |-> customer,
     category |-> category,
     product |-> product,
     quantity |-> quantity,
     unit_price |-> unit_price,
     total_amount |-> TotalAmount(unit_price, quantity, status),
     region |-> IF customer = 1 THEN "Bretagne" ELSE "Occitanie",
     payment_method |-> payment,
     status |-> status]

EngineSales ==
    { Sale(1, "Roman", "Livres", 1, 10000, "Carte bancaire", "Complété", Today0 - 40),
      Sale(1, "BD", "Livres", 2, 10000, "PayPal", "Complété", Today0 - 3),
      Sale(2, "Vélo", "Sports & Loisirs", 1, 30000, "Carte bancaire", "Complété", Today0 - 3),
      Sale(2, "Ballon", "Sports & Loisirs", 2, 25000, "Virement", "Complété", Today0 - 400),
      Sale(3, "Roman", "Livres", 1, 10000, "PayPal", "Annulé", Today0 - 40),
      Sale(2, "Vélo", "Sports & Loisirs", 2, 30000, "PayPal", "Remboursé", Today0 - 1) }

ThresholdAmounts ==
    { 26347, 4142, 19511, 29928, 16964, 3108, 52844, 27141, 120015, 50000, 200000 }

SegmentSales ==
    { Sale(1, "Laptop", "Électronique", 1, a, "PayPal", "Complété", Today0 - 3) :
        a \in ThresholdAmounts }
    \cup
    { Sale(1, "Laptop", "Électronique", 1, 50000, "PayPal", "Annulé", Today0 - 40),
      Sale(2, "Roman", "Livres", 1, 50001, "PayPal", "Complété", Today0 - 1) }

TransactionColumns ==
    {"transaction_id", "date", "customer_id", "category", "product", "quantity",
     "unit_price", "total_amount", "region", "payment_method", "status"}

\* load_data(): the transactions read from the CSV file (header and rows)
Loaded(sales) ==
    [columns |-> TransactionColumns,
     rows |-> [k \in 1..Len(sales) |-> [sales[k] EXCEPT !.transaction_id = k]]]

Tables(sales, max) ==
    { Loaded(f) : f \in UNION { [1..m -> sales] : m \in 0..max } }

InitEngine ==
    /\ InitCommon
    /\ pc = "loaded"
    /\ df \in Tables(EngineSales, MaxRows)

\* sales on both sides of a week's end and a month's end, and after a week
\* without sales: Sunday 2024-01-28, Monday 2024-01-29, Thursday 2024-02-01
\* (cancelled), Monday 2024-02-12
TimeSales ==
    { Sale(1, "Roman", "Livres", 1, 10000, "Carte bancaire", "Complété", 19750),
      Sale(2, "Vélo", "Sports & Loisirs", 1, 30000, "PayPal", "Complété", 19751),
      Sale(3, "Roman", "Livres", 1, 10000, "PayPal", "Annulé", 19754),
      Sale(1, "BD", "Livres", 2, 10000, "PayPal", "Complété", 19765) }

InitTime ==
    /\ InitCommon
    /\ pc = "loaded"
    /\ df \in Tables(TimeSales, MaxTimeRows)

InitSegments ==
    /\ InitCommon
    /\ pc = "loaded"
    /\ df \in Tables(SegmentSales, MaxSegRows)

(***************************************************************************)
(* Specifications                                                          *)
(***************************************************************************)
Next ==
    \/ Import
    \/ Tick
    \/ \E n \in (0 - MaxNegative)..MaxN : Call(n)
    \/ LoopBody
    \/ Return
    \/ Customers

NextEngine ==
    \/ Customers
    \/ CalculateKpis
    \/ SalesByCategory
    \/ SalesByRegion
    \/ \E n \in -1..MaxTop : TopProducts(n)
    \/ PaymentMethodAnalysis
    \/ CustomerSegmentsAnalysis

NextTime ==
    \/ NextEngine
    \/ \E k \in 1..Len(Freqs) : SalesOverTime(k)
    \/ KeepResult

\* the generator process: imports, calls of generate_ecommerce_data, the clock
Spec == Init /\ [][Next]_vars

\* the engine on a loaded table of ordinary sales
SpecEngine == InitEngine /\ [][NextEngine]_vars

\* the engine on a loaded table of spending at the segment thresholds
SpecSegments == InitSegments /\ [][NextEngine]_vars

\* the engine, sales_over_time included, on a loaded table of dated sales,
\* with a caller that keeps one of the results
SpecTime == InitTime /\ [][NextTime]_vars

(***************************************************************************)
(* Properties                                                              *)
(***************************************************************************)
\* the sum of f[x] over the x of S
RECURSIVE SumOver(_, _)
SumOver(S, f) ==
    IF S = {} THEN 0
    ELSE LET x == CHOOSE y \in S : TRUE IN f[x] + SumOver(S \ {x}, f)

\* samples of random.uniform over the price range of a category and over
\* the jitter range: both ends and a value that leaves a fraction of a cent
BaseSamples(category) ==
    LET r == PriceRange(category)
    IN  {r.lo, r.lo + 5, r.hi}

JitterSamples ==
    {JitterRange.lo, 1005, JitterRange.hi}

\* the pricing of line 74-75 and the zeroing of line 99, over every sampled
\* price of every category range, every jitter and every quantity 1..5
PricingZeroIffNotCompleted ==
    \A c \in Range(CATEGORIES) : \A b \in BaseSamples(c) : \A j \in JitterSamples :
    \A q \in Range(QUANTITIES) : \A st \in Range(STATUSES) :
        LET price == UnitPrice(b, j)
            total == TotalAmount(price, q, st)
        IN  /\ (total = 0) <=> (st # "Complété")
            /\ st = "Complété" => total = price * q /\ total > 0

\* C1: after any number of loop iterations every row built so far (and every
\* row of the returned table) has total_amount = 0 exactly when its status is
\* not Complété, and a Complété row has total_amount = unit_price * quantity
\* > 0; the same holds of the pricing for every sampled price of every
\* category range, every jitter and every quantity 1..5.
C1_AmountZeroIffNotCompleted ==
    /\ \A r \in Range(data) \cup Range(df.rows) :
        /\ (r.total_amount = 0) <=> (r.status # "Complété")
        /\ r.status = "Complété" =>
            r.total_amount = r.unit_price * r.quantity /\ r.total_amount > 0
    /\ PricingZeroIffNotCompleted

\* C1 witness: the loop has built a completed row with a positive amount and
\* a cancelled or refunded row
C1_Witness ==
    /\ pc = "loop"
    /\ \E a, b \in Range(data) :
        /\ a.status = "Complété" /\ a.total_amount > 0
        /\ b.status # "Complété" /\ b.total_amount = 0

\* C4 (as claimed): any two recorded runs with the same n have identical
\* Transaction tables and identical Customer tables
C4_SameSeedSameTables ==
    \A a, b \in 1..Len(runs) :
        runs[a].n = runs[b].n =>
            /\ runs[a].transactions = runs[b].transactions
            /\ runs[a].customers = runs[b].customers

\* C6 (as claimed): a call with n <= 0 ends in an invalid-argument error and
\* never returns a table
C6_BadNIsInvalidArgument ==
    (pc \in {"returned", "raised"} /\ n_transactions <= 0) =>
        (pc = "raised" /\ err = "InvalidArgument")

\* C10: for n > 0 the returned table has exactly n rows in non-decreasing
\* date order, its transaction ids are exactly 1..n, and the row carrying id
\* k is, field for field, the row built in the k-th loop iteration
C10_SortedRowsKeepTheirIds ==
    (pc = "returned" /\ n_transactions > 0) =>
        /\ Len(df.rows) = n_transactions
        /\ \A k \in 1..(Len(df.rows) - 1) :
            ToDatetime(df.rows[k].date) <= ToDatetime(df.rows[k + 1].date)
        /\ {df.rows[k].transaction_id : k \in 1..Len(df.rows)} = 1..n_transactions
        /\ \A k \in 1..n_transactions :
            /\ data[k].transaction_id = k
            /\ \E j \in 1..Len(df.rows) : df.rows[j] = data[k]

\* C10 witness: a returned table of two rows that the sort put in another
\* order than the one they were generated in
C10_Witness ==
    /\ pc = "returned"
    /\ n_transactions >= 2
    /\ df.rows # data
    /\ df.rows[1].transaction_id > df.rows[2].transaction_id

\* C2: on a non-empty table calculate_kpis returns total_revenue = the sum
\* of total_amount over the Complété rows, total_transactions = their number,
\* avg_order_value = total_revenue / total_transactions (NaN when there is no
\* Complété row), total_products_sold = the sum of their quantity,
\* total_customers = the number of distinct customer_id over ALL rows and
\* conversion_rate = 100 * (Complété rows) / (all rows)
C2_KpisOfCompletedRows ==
    (call.fn = "calculate_kpis" /\ Len(df.rows) > 0) =>
        LET all == 1..Len(df.rows)
            done == {k \in all : df.rows[k].status = "Complété"}
            v == result.value
        IN  /\ result.raised = "none"
            /\ v.total_revenue = SumOver(done, [k \in all |-> df.rows[k].total_amount])
            /\ v.total_transactions = Cardinality(done)
            /\ v.avg_order_value.nan = (done = {})
            /\ v.avg_order_value.num * v.total_transactions
                 = v.avg_order_value.den * v.total_revenue
            /\ v.total_products_sold = SumOver(done, [k \in all |-> df.rows[k].quantity])
            /\ v.total_customers = Cardinality({df.rows[k].customer_id : k \in all})
            /\ ~v.conversion_rate.nan
            /\ v.conversion_rate.num * Len(df.rows)
                 = v.conversion_rate.den * 100 * Cardinality(done)

\* C2 witness: the example of the specification - completed sales of 100, 200
\* and 300 and one cancelled sale give 600, 3, 200 and 75 - with a customer
\* whose only sale is the cancelled one counted among the customers
C2_Witness ==
    /\ call.fn = "calculate_kpis"
    /\ Len(df.rows) = 4
    /\ {r.total_amount : r \in {x \in Range(df.rows) : x.status = "Complété"}}
         = {10000, 20000, 30000}
    /\ \E r \in Range(df.rows) : r.status = "Annulé"
    /\ result.value.total_revenue = 60000
    /\ result.value.total_transactions = 3
    /\ result.value.avg_order_value = [nan |-> FALSE, num |-> 20000, den |-> 1]
    /\ result.value.conversion_rate = [nan |-> FALSE, num |-> 75, den |-> 1]
    /\ result.value.total_customers = 3

\* C3 (as claimed): for every table, sales_by_category has one row per
\* category occurring among the Complété rows and its revenue and
\* transactions columns sum to the total_revenue and total_transactions of
\* calculate_kpis on the same table
C3_CategoriesReconcileOnEveryTable ==
    call.fn = "sales_by_category" =>
        LET kpis == calculate_kpis(df)
            out == result.value
            cats == {r.category : r \in {x \in Range(df.rows) : x.status = "Complété"}}
        IN  /\ result.raised = "none"
            /\ Len(out) = Cardinality(cats)
            /\ {out[k].category : k \in 1..Len(out)} = cats
            /\ kpis.raised = "none"
            /\ SumOver(1..Len(out), [k \in 1..Len(out) |-> out[k].revenue])
                 = kpis.value.total_revenue
            /\ SumOver(1..Len(out), [k \in 1..Len(out) |-> out[k].transactions])
                 = kpis.value.total_transactions

\* C3 (amended): the same on every NON-EMPTY table (calculate_kpis raises
\* ZeroDivisionError on an empty one and has no totals to compare with)
C3_CategoriesReconcile ==
    (call.fn = "sales_by_category" /\ Len(df.rows) > 0) =>
        LET kpis == calculate_kpis(df)
            out == result.value
            cats == {r.category : r \in {x \in Range(df.rows) : x.status = "Complété"}}
        IN  /\ result.raised = "none"
            /\ Len(out) = Cardinality(cats)
            /\ {out[k].category : k \in 1..Len(out)} = cats
            /\ kpis.raised = "none"
            /\ SumOver(1..Len(out), [k \in 1..Len(out) |-> out[k].revenue])
                 = kpis.value.total_revenue
            /\ SumOver(1..Len(out), [k \in 1..Len(out) |-> out[k].transactions])
                 = kpis.value.total_transactions

\* C3 witness: sales_by_category returned two categories, one of them holding
\* several completed sales, from a table that also has a sale not completed
C3_Witness ==
    /\ call.fn = "sales_by_category"
    /\ Len(result.value) = 2
    /\ \E k \in 1..2 : result.value[k].transactions >= 2
    /\ \E r \in Range(df.rows) : r.status # "Complété"

\* C5 (as claimed): the segment follows from the recorded total_spent with
\* strict thresholds: > 2000 Premium, > 500 Régulier, otherwise Occasionnel
C5_SegmentOfRecordedTotal ==
    pc = "derived" =>
        \A c \in Range(customers_df.rows) :
            c.segment = IF c.total_spent > PremiumAbove THEN "Premium"
                        ELSE IF c.total_spent > RegularAbove THEN "Régulier"
                        ELSE "Occasionnel"

\* C7 (as claimed): a mean or ratio over an empty set is signalled as an
\* error: calculate_kpis raises when the table has no Complété row (or no row
\* at all) and payment_method_analysis raises when it has no Complété row
C7_EmptyMeanOrRatioRaises ==
    /\ (call.fn = "calculate_kpis" /\ Completed(df) = <<>>) => result.raised # "none"
    /\ (call.fn = "payment_method_analysis" /\ Completed(df) = <<>>) => result.raised # "none"

\* C8: for n > 0 top_products returns at most n rows (all the pairs when
\* there are no more than n), one per distinct (product, category) pair of
\* the Complété rows with the revenue of that pair, in non-increasing revenue
\* order, and no pair left out has a revenue above that of a returned row
C8_TopProductsAreTheTop ==
    (call.fn = "top_products" /\ call.n > 0) =>
        LET out == result.value
            all == 1..Len(df.rows)
            done == {k \in all : df.rows[k].status = "Complété"}
            pairs == {<<df.rows[k].product, df.rows[k].category>> : k \in done}
            Revenue(p) == SumOver({k \in done : <<df.rows[k].product, df.rows[k].category>> = p},
                                  [k \in all |-> df.rows[k].total_amount])
            shown == {<<out[k].product, out[k].category>> : k \in 1..Len(out)}
        IN  /\ result.raised = "none"
            /\ Len(out) <= call.n
            /\ Len(out) = IF Cardinality(pairs) < call.n THEN Cardinality(pairs) ELSE call.n
            /\ shown \subseteq pairs
            /\ Cardinality(shown) = Len(out)
            /\ \A k \in 1..Len(out) : out[k].revenue = Revenue(<<out[k].product, out[k].category>>)
            /\ \A k \in 1..(Len(out) - 1) : out[k].revenue >= out[k + 1].revenue
            /\ \A p \in pairs \ shown : \A k \in 1..Len(out) : Revenue(p) <= out[k].revenue

\* C8 witness: the example of the specification - n = 1 over two products
\* with revenues 500 and 300 returns the one row of revenue 500
C8_Witness ==
    /\ call.fn = "top_products"
    /\ call.n = 1
    /\ {<<r.product, r.total_amount>> : r \in {x \in Range(df.rows) : x.status = "Complété"}}
         = {<<"Ballon", 50000>>, <<"Vélo", 30000>>}
    /\ Len(df.rows) = 2
    /\ Len(result.value) = 1
    /\ result.value[1].product = "Ballon"
    /\ result.value[1].revenue = 50000

\* C9 (as claimed): generate_customer_data(t) has exactly one row per
\* customer_id of t and customer_segments_analysis of it returns segments
\* whose nb_customers sum to the number of distinct customer_id of t
C9_OneCustomerRowPerId ==
    /\ pc = "derived" =>
        LET ids == {r.customer_id : r \in Range(df.rows)}
        IN  /\ Len(customers_df.rows) = Cardinality(ids)
            /\ {c.customer_id : c \in Range(customers_df.rows)} = ids
    /\ call.fn = "customer_segments_analysis" =>
        /\ result.raised = "none"
        /\ SumOver(1..Len(result.value),
                   [k \in 1..Len(result.value) |-> result.value[k].nb_customers])
             = Cardinality({r.customer_id : r \in Range(df.rows)})


PeriodStart(freq, day) ==
    CASE freq = "D" -> day
      [] freq = "W" -> day - Weekday(day)
      [] freq = "M" -> LET c == CivilFromDays(day) IN DaysFromCivil(c[1], c[2], 1)

\* C12 (as claimed): the rows sales_over_time returns are in strictly ascending
\* period order, each labelled with the first day of its calendar period; every
\* completed row is counted in the bucket of the period that contains its date
\* and in no other, so revenue and transactions add up to the completed totals
\* and a bucket without completed rows shows 0 and 0.
C12_BucketsLabelledByPeriodStart ==
    (call.fn = "sales_over_time" /\ result.raised = "none") =>
        LET freq == Freqs[call.n]
            ts == result.value
            completed == Completed(df)
            InPeriod(b) == SelectSeq(completed,
                LAMBDA r : PeriodStart(freq, ToDatetime(r.date)) = ts[b].date)
        IN  /\ \A a, b \in 1..Len(ts) : a < b => ts[a].date < ts[b].date
            /\ \A b \in 1..Len(ts) :
                /\ ts[b].date = PeriodStart(freq, ts[b].date)
                /\ ts[b].revenue = SumSeq(Column(InPeriod(b), "total_amount"))
                /\ ts[b].transactions = Len(InPeriod(b))
            /\ \A k \in 1..Len(completed) : \E b \in 1..Len(ts) :
                    ts[b].date = PeriodStart(freq, ToDatetime(completed[k].date))
            /\ SumSeq(Column(ts, "revenue")) = SumSeq(Column(completed, "total_amount"))
            /\ SumSeq(Column(ts, "transactions")) = Len(completed)

====
